---- MODULE Spec2Model ----
(***************************************************************************)
(* Terrain tile streaming of ta-si/thrive.                                 *)
(*                                                                         *)
(* Two schedulers live in the repository:                                  *)
(*   - the cache-versioned scheduler, resource TerrainManager              *)
(*     (src/terrain/terrain_plugin.rs): specifications Spec (one           *)
(*     observer), SpecPair (two observers), SpecE2E (the first tick on     *)
(*     the default grid), SpecSettle (the default grid, no movement),      *)
(*     SpecRelocate (one move after convergence, with fairness),           *)
(*     SpecVanish (the observer may be removed), SpecSelfCorrect (one job  *)
(*     at a time, with fairness), SpecStalled (limit 0), SpecInverted      *)
(*     (inverted grid range), SpecFootprint (two observers at rest on a    *)
(*     grid that ends at i32::MAX), SpecCrossing (one observer moving      *)
(*     across the world origin) and SpecMesh (generate_tile_mesh run for   *)
(*     every resolution up to MaxResolution);                              *)
(*   - the grace-period scheduler, resource TerrainState                   *)
(*     (src/terrain/systems.rs): specifications SpecGrace, SpecGraceBusy   *)
(*     (two tasks in flight) and SpecGraceWide (radius 2, loader at rest). *)
(*                                                                         *)
(* A coordinate (IVec2) is a pair <<x, y>>.  A HashMap is a function whose *)
(* DOMAIN is its key set.  Every system (a Bevy system function) is one    *)
(* action that models the whole function body.                             *)
(***************************************************************************)
EXTENDS Integers, Sequences, FiniteSets, TLC

VARIABLES
    \* ---- cache-versioned scheduler (terrain_plugin.rs) ----
    transform,            \* spawner -> world (x, z) of its Transform
    transformChanged,     \* spawner -> Changed<Transform> not yet seen by the tracker
    spawner,              \* spawner -> [coord, radius]  (TerrainSpawner)
    spawnerChanged,       \* Changed<TerrainSpawner> not yet seen by any_spawner_moved
    tile_size,            \* TerrainManager.tile_size
    grid_min,             \* TerrainManager.grid_min
    grid_max,             \* TerrainManager.grid_max
    max_concurrent_tasks, \* TerrainManager.max_concurrent_tasks
    cache_version,        \* TerrainManager.cache_version
    cache,                \* TerrainManager.cache: coord -> [mesh_handle, version]
    tiles_to_load,        \* TerrainManager.tiles_to_load: Seq(coord)
    pending,              \* TerrainManager.pending: coord -> task [snapshot]
    loaded,               \* TerrainManager.loaded: coord -> [mesh_handle]
    live,                 \* the tile entities of the world: coord -> the number of
                          \* entities with TerrainTile { coord } that got a spawn
                          \* command and no despawn command yet
    launched,             \* the pool.spawn launched of the system that ran last: the
                          \* coords, in call order
    ran,                  \* the Update systems that already ran in the current tick
    ticks,                \* completed ticks of the Update schedule (capped)
    resolution,           \* TerrainManager.resolution
    generated,            \* the generation job that returned last: the resolution it
                          \* captured and its TileResult; NoJob before the first
    \* ---- grace-period scheduler (systems.rs) ----
    loader,               \* loader -> [translation, radius_tiles]  (Transform, TileLoader)
    cfg,                  \* TerrainConfig: tile_size, despawn_grace_seconds,
                          \*   max_spawns_per_frame, max_in_flight_tasks
    now,                  \* time.elapsed_secs() of the current tick, in time units
    stage,                \* the chained system that runs next; "idle" between ticks
    tiles,                \* TerrainState.tiles: coord -> entity
    state_pending,        \* TerrainState.pending: coord -> entity
    last_touched,         \* TerrainState.last_touched: coord -> time
    world,                \* the live entities of the chain: entity -> "task" | "tile"
    \* history of the grace-period scheduler, per coordinate
    seenAt,               \* the time of the last tick that found coord desired, or -1
    leftAt,               \* the time of the first tick that found the loaded tile's
                          \* coord not desired, in the current absence; -1 otherwise
    despawnedAt           \* the times at which a tile entity of coord got despawn()
                          \* since coord was last desired

managerVars == <<tile_size, grid_min, grid_max, max_concurrent_tasks,
                 cache_version, cache, tiles_to_load, pending, loaded>>
meshVars == <<resolution, generated>>
pluginVars == <<transform, transformChanged, spawner, spawnerChanged, tile_size,
                grid_min, grid_max, max_concurrent_tasks, cache_version, cache,
                tiles_to_load, pending, loaded, live, launched, ran, ticks,
                resolution, generated>>
graceVars == <<loader, cfg, now, stage, tiles, state_pending, last_touched, world,
               seenAt, leftAt, despawnedAt>>
vars == <<transform, transformChanged, spawner, spawnerChanged, tile_size,
          grid_min, grid_max, max_concurrent_tasks, cache_version, cache,
          tiles_to_load, pending, loaded, live, launched, ran, ticks,
          resolution, generated,
          loader, cfg, now, stage, tiles, state_pending, last_touched, world,
          seenAt, leftAt, despawnedAt>>

----------------------------------------------------------------------------
\* Bounds of the model.

\* The scheduler with the wide loader is run until this time.
MaxWideTime == 2
\* cache_version is bumped at most up to this value.
MaxVersion == 2
\* The grace-period scheduler is run until this time.
MaxTime == 6
\* A frame of the grace-period scheduler takes 1..MaxDelta time units.
MaxDelta == 3
\* A hash set of at most this many elements is iterated in every possible
\* order; a larger one in two orders only (ascending and descending).
MaxPermuted == 3
\* ticks is counted up to this value and then stays.
MaxTicks == 1
\* TerrainManager.resolution is drawn from 0..MaxResolution.
MaxResolution == 5

----------------------------------------------------------------------------
\* Values of the model's configuration and inputs.

\* World positions (x, z) an observer's Transform takes in Spec and SpecPair:
\* with a tile size of 2 these are the grid coordinates (1, 0) and (3, 0).
WorldPositions == {<<2, 1>>, <<6, 1>>}

I32Max == 2147483647
I32Min == (0 - 2147483647) - 1

----------------------------------------------------------------------------
\* Helpers.

Empty == << >>

\* The map m without key k (HashMap::remove).
MapRemove(m, k) == [c \in (DOMAIN m) \ {k} |-> m[c]]

\* The map m with key k set to v (HashMap::insert).
MapInsert(m, k, v) == [c \in (DOMAIN m) \cup {k} |-> IF c = k THEN v ELSE m[c]]

\* The set of elements of a sequence.
Range(s) == {s[i] : i \in 1..Len(s)}

\* Lexicographic order on coordinates.
CoordLess(a, b) == a[1] < b[1] \/ (a[1] = b[1] /\ a[2] < b[2])

\* The coordinates of S in ascending order.
RECURSIVE Ascending(_)
Ascending(S) ==
    IF S = {} THEN << >>
    ELSE LET m == CHOOSE a \in S : \A b \in S \ {a} : CoordLess(a, b)
         IN <<m>> \o Ascending(S \ {m})

Reverse(s) == [i \in 1..Len(s) |-> s[Len(s) + 1 - i]]

\* Every sequence that holds each element of S once.
RECURSIVE Orderings(_)
Orderings(S) ==
    IF S = {} THEN {<< >>}
    ELSE UNION {{<<a>> \o rest : rest \in Orderings(S \ {a})} : a \in S}

\* IterOrders visiting every element twice (a list of demands that was
\* not collapsed into a set).
IterOrdersTwice(S) == {o \o o : o \in Orderings(S)}

\* The orders in which a hash set is iterated (the iteration order of
\* HashSet and HashMap is unspecified).
IterOrders(S) ==
    IF Cardinality(S) <= MaxPermuted THEN Orderings(S)
    ELSE {Ascending(S), Reverse(Ascending(S))}

\* i32 saturating addition.
SatAddI32(a, b) ==
    IF b > 0 /\ a > I32Max - b THEN I32Max
    ELSE IF b < 0 /\ a < I32Min - b THEN I32Min
    ELSE a + b

\* IVec2::saturating_add.
SaturatingAdd(c, d) == <<SatAddI32(c[1], d[1]), SatAddI32(c[2], d[2])>>

\* The conversion without floor(): the cast rounds toward zero.
WorldToGridTruncating(p, ts) ==
    [axis \in {1, 2} |->
        IF p[axis] >= 0 THEN p[axis] \div ts ELSE 0 - ((0 - p[axis]) \div ts)]

\* (tf.translation.xz() / tile_size).floor().as_ivec2()
WorldToGrid(p, ts) == <<p[1] \div ts, p[2] \div ts>>

----------------------------------------------------------------------------
\* The cache-versioned scheduler: terrain_plugin.rs.

\* The four systems TerrainPlugin::build adds to Update.  No ordering is
\* declared between them (no .chain(), .before() or .after()), so each runs
\* once per tick, in an order the executor chooses.
Systems == {"tracker", "loader", "dispatch", "complete"}

\* No generation job has returned yet.
NoJob == << >>

\* let verts_per_edge = resolution.max(2);
VertsPerEdge(res) == IF res >= 2 THEN res ELSE 2

\* positions: for j, for i, push [i * step, height_at(world_x, world_z), j * step],
\* in units of step; the height is a function of the tile and the sample.
Positions(coord, R) ==
    [k \in 1..(R * R) |->
        [x |-> (k - 1) % R,
         y |-> <<"height_at", coord, (k - 1) % R, (k - 1) \div R>>,
         z |-> (k - 1) \div R]]

\* The two triangles with the first and the last vertex exchanged.
CellIndicesReversed(R, j, i) ==
    <<j * R + i + 1, (j + 1) * R + i, j * R + i,
      (j + 1) * R + i + 1, (j + 1) * R + i, j * R + i + 1>>

\* The six indices of the cell (i, j): (i0, i2, i1) and (i1, i2, i3).
CellIndices(R, j, i) ==
    <<j * R + i, (j + 1) * R + i, j * R + i + 1,
      j * R + i + 1, (j + 1) * R + i, (j + 1) * R + i + 1>>

\* indices: for j in 0..(R - 1), for i in 0..(R - 1), extend by the cell's
\* indices; cell is the number of cells already emitted.
RECURSIVE Indices(_, _)
Indices(R, cell) ==
    IF R < 2 \/ cell >= (R - 1) * (R - 1) THEN << >>
    ELSE CellIndices(R, cell \div (R - 1), cell % (R - 1)) \o Indices(R, cell + 1)

\* generate_tile_mesh: the TileResult for coord at the given resolution.
\* normals has one entry per position, colors one entry per normal.
GenerateTileMesh(coord, res) ==
    LET R == VertsPerEdge(res)
        positions == Positions(coord, R)
        normals == [k \in 1..Len(positions) |-> <<"normal", k - 1>>]
        colors == [k \in 1..Len(normals) |-> <<"color", k - 1>>]
    IN [coord |-> coord,
        mesh |-> [positions |-> positions, normals |-> normals,
                  colors |-> colors, indices |-> Indices(R, 0)]]

\* The handle of the mesh a job dispatched for coord under snapshot produces
\* (meshes.add(result.mesh)); the job captured its settings when dispatched.
MeshHandle(coord, snapshot) == [coord |-> coord, snapshot |-> snapshot]

\* Neighborhood as a diamond: |dx| + |dz| <= radius.
NeighborhoodDiamond(s) ==
    {SaturatingAdd(spawner[s].coord, <<dx, dz>>) :
        dx \in (0 - spawner[s].radius)..spawner[s].radius,
        dz \in {0}} \cup
    {SaturatingAdd(spawner[s].coord, <<dx, dz>>) :
        dx \in {0},
        dz \in (0 - spawner[s].radius)..spawner[s].radius}

\* The footprint of one spawner: coord + (dx, dz), dx, dz in -radius..=radius.
Neighborhood(s) ==
    {SaturatingAdd(spawner[s].coord, <<dx, dz>>) :
        dx \in (0 - spawner[s].radius)..spawner[s].radius,
        dz \in (0 - spawner[s].radius)..spawner[s].radius}

\* InGrid without its test against grid_max.x.
InGridNoMaxX(coord) ==
    ~(\/ coord[1] < grid_min[1]
      \/ coord[2] < grid_min[2]
      \/ coord[2] > grid_max[2])

\* The grid test of 2A: a coordinate outside the inclusive bounds is skipped.
InGrid(coord) ==
    ~(\/ coord[1] < grid_min[1]
      \/ coord[2] < grid_min[2]
      \/ coord[1] > grid_max[1]
      \/ coord[2] > grid_max[2])

\* 2A) the set of desired coords.
Desired == UNION {{coord \in Neighborhood(s) : InGrid(coord)} : s \in DOMAIN spawner}

\* The live tile entities l after a spawn command for one entity with
\* TerrainTile { coord } per coord of plus and a despawn command for one
\* such entity per coord of minus.  A count other than 1 is more than one
\* live tile of the coordinate, or (below 0) a despawn that found none.
Adjust(l, plus, minus) ==
    LET n(coord) == (IF coord \in DOMAIN l THEN l[coord] ELSE 0)
                    + (IF coord \in plus THEN 1 ELSE 0)
                    - (IF coord \in minus THEN 1 ELSE 0)
    IN [coord \in {c \in (DOMAIN l) \cup plus \cup minus : n(c) # 0} |-> n(coord)]

\* commands.spawn((.., TerrainTile { coord })) for every coord of coords.
Spawn(l, coords) == Adjust(l, coords, {})

\* Despawn leaving the entities alive.
DespawnNothing(l, coords) == l

\* commands.entity(loaded_tile.entity).despawn() for the tile of every
\* coord of coords.
Despawn(l, coords) == Adjust(l, {}, coords)

\* 2B) to_unload: the loaded coords that are not desired.
ToUnload(ld, desired) == (DOMAIN ld) \ desired

\* Unload removing every tile.
UnloadAll(ld, desired) == Empty

\* Unload keeping every tile.
UnloadNothing(ld, desired) == ld

\* Unload taking the tiles with a stale cache entry off as well.
UnloadStale(ld, desired) ==
    [coord \in {c \in (DOMAIN ld) \cap desired :
                    c \in DOMAIN cache => cache[c].version = cache_version}
        |-> ld[coord]]

\* 2B) loaded without the tiles whose coord is not desired.
Unload(ld, desired) == [coord \in (DOMAIN ld) \cap desired |-> ld[coord]]

\* CacheFresh taking every entry that is not newer for fresh.
CacheFreshOrOlder(entry, version) == entry.version <= version

\* The freshness test of a cache entry.
CacheFresh(entry, version) == entry.version = version

\* Evict leaving the entry in the cache.
EvictNothing(c, coord) == c

\* The cache c after a stale entry of coord, if any, is evicted
\* (meshes.remove of its handle, cache.remove of its key).
Evict(c, coord) == IF coord \in DOMAIN c THEN MapRemove(c, coord) ELSE c

\* LoaderResolve making no use of the cache: every desired coordinate that
\* is not loaded loses its entry and is queued for a new job.
RECURSIVE LoaderResolveNoReuse(_, _)
LoaderResolveNoReuse(ord, st) ==
    IF ord = << >> THEN st
    ELSE
    LET coord == Head(ord)
        next ==
            IF coord \in DOMAIN st.loaded THEN st
            ELSE [st EXCEPT
                    !.cache = Evict(@, coord),
                    !.tiles_to_load = IF coord \in DOMAIN pending
                                      THEN @ ELSE Append(@, coord)]
    IN LoaderResolveNoReuse(Tail(ord), next)

\* LoaderResolve testing the cache before the loaded map: the stale entry of
\* a loaded coordinate is evicted as well.
RECURSIVE LoaderResolveEvictsLoaded(_, _)
LoaderResolveEvictsLoaded(ord, st) ==
    IF ord = << >> THEN st
    ELSE
    LET coord == Head(ord)
        next ==
            IF coord \in DOMAIN st.cache
                /\ ~CacheFresh(st.cache[coord], cache_version)
            THEN [st EXCEPT
                    !.cache = Evict(@, coord),
                    !.tiles_to_load = IF coord \in DOMAIN pending \/ coord \in DOMAIN st.loaded
                                      THEN @ ELSE Append(@, coord)]
            ELSE IF coord \in DOMAIN st.loaded THEN st
            ELSE IF coord \in DOMAIN st.cache
            THEN [st EXCEPT
                    !.loaded = MapInsert(@, coord,
                                [mesh_handle |-> st.cache[coord].mesh_handle]),
                    !.live = Spawn(@, {coord})]
            ELSE [st EXCEPT
                    !.tiles_to_load = IF coord \in DOMAIN pending
                                      THEN @ ELSE Append(@, coord)]
    IN LoaderResolveEvictsLoaded(Tail(ord), next)

\* 2C) one pass over desired in iteration order ord;
\* st = [loaded, cache, tiles_to_load, live].
RECURSIVE LoaderResolve(_, _)
LoaderResolve(ord, st) ==
    IF ord = << >> THEN st
    ELSE
    LET coord == Head(ord)
        next ==
            IF coord \in DOMAIN st.loaded THEN st
            ELSE IF coord \in DOMAIN st.cache
                    /\ CacheFresh(st.cache[coord], cache_version)
            THEN [st EXCEPT
                    !.loaded = MapInsert(@, coord,
                                [mesh_handle |-> st.cache[coord].mesh_handle]),
                    !.live = Spawn(@, {coord})]
            ELSE [st EXCEPT
                    !.cache = Evict(@, coord),
                    !.tiles_to_load = IF coord \in DOMAIN pending
                                      THEN @ ELSE Append(@, coord)]
    IN LoaderResolve(Tail(ord), next)

\* delta.x * delta.x + delta.y * delta.y, in i32.  The integers of the
\* model checker are 32 bits wide as well; the coordinates of the model
\* stay far below the 46341 tiles of distance at which the sum overflows.
D2(coord, center) ==
    LET dx == coord[1] - center[1]
        dy == coord[2] - center[2]
    IN dx * dx + dy * dy

SetMin(S) == CHOOSE m \in S : \A n \in S : m <= n

\* MinD2 looking at one observer only.
MinD2OneObserver(coord) ==
    D2(coord, spawner[CHOOSE s \in DOMAIN spawner : TRUE].coord)

\* min_d2 of dispatch: starts at i32::MAX, lowered by every nearer spawner.
MinD2(coord) == SetMin({I32Max} \cup {D2(coord, spawner[s].coord) : s \in DOMAIN spawner})

\* The key dispatch sorts its list by.
DispatchKey(coord) == MinD2(coord)

\* Insertion of e = <<key, coord>> into a list sorted by key, after every
\* element whose key is not greater (the sort is stable).
InsertByKey(sorted, e) ==
    LET k == Cardinality({i \in 1..Len(sorted) : sorted[i][1] <= e[1]})
    IN SubSeq(sorted, 1, k) \o <<e>> \o SubSeq(sorted, k + 1, Len(sorted))

\* list.sort_by_key(|&(d2, _)| d2)
RECURSIVE SortByKey(_)
SortByKey(list) ==
    IF list = << >> THEN << >>
    ELSE InsertByKey(SortByKey(SubSeq(list, 1, Len(list) - 1)), list[Len(list)])

\* The list dispatch builds from tiles_to_load: (distance^2, coord), sorted.
DispatchList(queue) == SortByKey([i \in 1..Len(queue) |-> <<DispatchKey(queue[i]), queue[i]>>])

\* AtLimit finding the limit reached whatever is in flight.
AtLimitAlways(p, limit) == TRUE

\* AtLimit letting one job more in.
AtLimitOffByOne(p, limit) == Cardinality(DOMAIN p) > limit

\* The limit test of the dispatch loop.
AtLimit(p, limit) == Cardinality(DOMAIN p) >= limit

\* The dispatch loop over the sorted list;
\* st = [pending, spawned_set, launched].
RECURSIVE DispatchWalk(_, _)
DispatchWalk(list, st) ==
    IF list = << >> THEN st
    ELSE
    LET coord == Head(list)[2]
        skip == [st EXCEPT !.spawned_set = @ \cup {coord}]
    IN  IF AtLimit(st.pending, max_concurrent_tasks) THEN st
        ELSE IF coord \in DOMAIN loaded THEN DispatchWalk(Tail(list), skip)
        ELSE IF coord \in DOMAIN cache /\ cache[coord].version = cache_version
        THEN DispatchWalk(Tail(list), skip)
        ELSE IF coord \in DOMAIN st.pending THEN DispatchWalk(Tail(list), skip)
        ELSE DispatchWalk(Tail(list),
                [pending |-> MapInsert(st.pending, coord,
                                [snapshot |-> cache_version]),
                 spawned_set |-> st.spawned_set \cup {coord},
                 launched |-> Append(st.launched, coord)])

\* Retain keeping the whole queue.
RetainAll(queue, spawned_set) == queue

\* Retain emptying the queue.
RetainNothing(queue, spawned_set) == << >>

\* tiles_to_load.retain(|coord| !spawned_set.contains(coord))
Retain(queue, spawned_set) == SelectSeq(queue, LAMBDA coord : coord \notin spawned_set)

\* CompleteVersion lagging one version behind.
CompleteVersionBehind == cache_version - 1

\* The version terrain_tile_task_complete tags a new cache entry with.
CompleteVersion == cache_version

\* StillPending dropping the jobs that have no result yet.
StillPendingNone(p, ready) == Empty

\* StillPending keeping the finished jobs too.
StillPendingKeepsAll(p, ready) == p

\* still_pending: the jobs whose poll gave None; ready are the others.
StillPending(p, ready) == [coord \in (DOMAIN p) \ ready |-> p[coord]]

\* Collected using no result.
CollectedNothing(ready, ld) == {}

\* The finished jobs whose result is used: coord is not loaded.
Collected(ready, ld) == {coord \in ready : coord \notin DOMAIN ld}
----------------------------------------------------------------------------
\* Initial states.

\* The state after App construction and Startup: the resource is
\* TerrainManager::default() with the given settings, every spawner was
\* just added (so its Transform and TerrainSpawner count as changed).
InitManager(ts, gmin, gmax, limit) ==
    /\ tile_size = ts
    /\ grid_min = gmin
    /\ grid_max = gmax
    /\ max_concurrent_tasks = limit
    /\ cache_version = 1
    /\ cache = Empty
    /\ tiles_to_load = << >>
    /\ pending = Empty
    /\ loaded = Empty
    /\ live = Empty
    /\ launched = << >>
    /\ ran = {}
    /\ ticks = 0
    /\ resolution = 129
    /\ generated = NoJob

InitSpawners(ids, positions, radius) ==
    /\ transform \in [ids -> positions]
    /\ transformChanged = [s \in ids |-> TRUE]
    /\ spawner = [s \in ids |->
                    [coord |-> WorldToGrid(transform[s], tile_size), radius |-> radius]]
    /\ spawnerChanged = TRUE

\* The grace-period scheduler before anything is added to the App.
GraceUnused ==
    /\ loader = Empty
    /\ cfg = [tile_size |-> 2, despawn_grace_seconds |-> 2,
              max_spawns_per_frame |-> 1, max_in_flight_tasks |-> 1]
    /\ now = 0
    /\ stage = "idle"
    /\ tiles = Empty
    /\ state_pending = Empty
    /\ last_touched = Empty
    /\ world = Empty
    /\ seenAt = Empty
    /\ leftAt = Empty
    /\ despawnedAt = Empty

Init ==
    /\ GraceUnused
    /\ InitManager(2, <<0, 0>>, <<2, 0>>, 2)
    /\ InitSpawners({1}, WorldPositions, 1)

----------------------------------------------------------------------------
\* The environment.

\* An observer's Transform is moved (camera control).
Move(s) ==
    /\ \E p \in WorldPositions :
        /\ p # transform[s]
        /\ transform' = [transform EXCEPT ![s] = p]
    /\ transformChanged' = [transformChanged EXCEPT ![s] = TRUE]
    /\ UNCHANGED <<spawner, spawnerChanged, managerVars, launched, ran, ticks>>
    /\ UNCHANGED live
    /\ UNCHANGED meshVars
    /\ UNCHANGED graceVars

\* cache_version is incremented (the mesh generation logic changed).
Bump ==
    /\ cache_version < MaxVersion
    /\ cache_version' = cache_version + 1
    /\ UNCHANGED <<transform, transformChanged, spawner, spawnerChanged, tile_size,
                   grid_min, grid_max, max_concurrent_tasks, cache, tiles_to_load,
                   pending, loaded, launched, ran, ticks>>
    /\ UNCHANGED live
    /\ UNCHANGED meshVars
    /\ UNCHANGED graceVars

----------------------------------------------------------------------------
\* The systems.

\* 1) terrain_spawner_tracker
Tracker ==
    /\ "tracker" \notin ran
    /\ ran' = ran \cup {"tracker"}
    /\ LET new_coord(s) == WorldToGrid(transform[s], tile_size)
           moved == {s \in DOMAIN spawner : transformChanged[s] /\ spawner[s].coord # new_coord(s)}
       IN /\ spawner' = [s \in DOMAIN spawner |->
                            IF s \in moved THEN [spawner[s] EXCEPT !.coord = new_coord(s)]
                            ELSE spawner[s]]
          /\ spawnerChanged' = (spawnerChanged \/ moved # {})
    /\ transformChanged' = [s \in DOMAIN spawner |-> FALSE]
    /\ launched' = << >>
    /\ UNCHANGED <<transform, managerVars, ticks>>
    /\ UNCHANGED live
    /\ UNCHANGED meshVars
    /\ UNCHANGED graceVars

\* 2) terrain_tile_loader, behind run_if(any_spawner_moved)
LoaderRun ==
    /\ "loader" \notin ran
    /\ spawnerChanged
    /\ ran' = ran \cup {"loader"}
    /\ spawnerChanged' = FALSE
    /\ \E desired \in {Desired} :
       \E ord \in IterOrders(desired) :
       \E st \in {LoaderResolve(ord, [loaded |-> Unload(loaded, desired),
                                       cache |-> cache,
                                       tiles_to_load |-> << >>,
                                       live |-> Despawn(live, ToUnload(loaded, desired))])} :
            /\ loaded' = st.loaded
            /\ live' = st.live
            /\ cache' = st.cache
            /\ tiles_to_load' = st.tiles_to_load
            /\ launched' = << >>
    /\ UNCHANGED <<transform, transformChanged, spawner, tile_size, grid_min, grid_max,
                   max_concurrent_tasks, cache_version, pending, ticks>>
    /\ UNCHANGED meshVars
    /\ UNCHANGED graceVars

\* any_spawner_moved is false: the loader is skipped this tick.
LoaderSkip ==
    /\ "loader" \notin ran
    /\ ~spawnerChanged
    /\ ran' = ran \cup {"loader"}
    /\ UNCHANGED <<transform, transformChanged, spawner, spawnerChanged, managerVars,
                   launched, ticks>>
    /\ UNCHANGED live
    /\ UNCHANGED meshVars
    /\ UNCHANGED graceVars

\* 3) terrain_tile_task_dispatch
Dispatch ==
    /\ "dispatch" \notin ran
    /\ ran' = ran \cup {"dispatch"}
    /\ \E list \in {DispatchList(tiles_to_load)} :
       \E st \in {DispatchWalk(list,
                    [pending |-> pending, spawned_set |-> {}, launched |-> << >>])} :
          /\ pending' = st.pending
          /\ launched' = st.launched
          /\ tiles_to_load' = Retain(tiles_to_load, st.spawned_set)
    /\ UNCHANGED <<transform, transformChanged, spawner, spawnerChanged, tile_size,
                   grid_min, grid_max, max_concurrent_tasks, cache_version, cache,
                   loaded, ticks>>
    /\ UNCHANGED live
    /\ UNCHANGED meshVars
    /\ UNCHANGED graceVars

\* 4) terrain_tile_task_complete; ready are the jobs that have produced
\* their result when the system polls them (a job runs on the task pool and
\* may finish at any time after its dispatch).
Complete(ready) ==
    /\ "complete" \notin ran
    /\ ran' = ran \cup {"complete"}
    /\ LET got == Collected(ready, loaded)
           handle(coord) == MeshHandle(coord, pending[coord].snapshot)
       IN /\ cache' = [coord \in (DOMAIN cache) \cup got |->
                        IF coord \in got
                        THEN [mesh_handle |-> handle(coord), version |-> CompleteVersion]
                        ELSE cache[coord]]
          /\ loaded' = [coord \in (DOMAIN loaded) \cup got |->
                        IF coord \in got THEN [mesh_handle |-> handle(coord)]
                        ELSE loaded[coord]]
          /\ live' = Spawn(live, got)
          /\ launched' = << >>
    /\ pending' = StillPending(pending, ready)
    /\ UNCHANGED <<transform, transformChanged, spawner, spawnerChanged, tile_size,
                   grid_min, grid_max, max_concurrent_tasks, cache_version,
                   tiles_to_load, ticks>>
    /\ UNCHANGED meshVars
    /\ UNCHANGED graceVars

\* Every system of Update ran: the tick is over.
EndTick ==
    /\ ran = Systems
    /\ ran' = {}
    /\ ticks' = IF ticks < MaxTicks THEN ticks + 1 ELSE ticks
    /\ UNCHANGED <<transform, transformChanged, spawner, spawnerChanged, managerVars,
                   launched>>
    /\ UNCHANGED live
    /\ UNCHANGED meshVars
    /\ UNCHANGED graceVars

Next ==
    \/ \E s \in DOMAIN spawner : Move(s)
    \/ Bump
    \/ Tracker
    \/ LoaderRun
    \/ LoaderSkip
    \/ Dispatch
    \/ \E ready \in SUBSET (DOMAIN pending) : Complete(ready)
    \/ EndTick

Spec == Init /\ [][Next]_vars

\* Two observers on a grid of four tiles, without version bumps.
InitPair ==
    /\ GraceUnused
    /\ InitManager(2, <<0, 0>>, <<3, 0>>, 2)
    /\ InitSpawners({1, 2}, WorldPositions, 1)

NextPair ==
    \/ \E s \in DOMAIN spawner : Move(s)
    \/ Tracker
    \/ LoaderRun
    \/ LoaderSkip
    \/ Dispatch
    \/ \E ready \in SUBSET (DOMAIN pending) : Complete(ready)
    \/ EndTick

SpecPair == InitPair /\ [][NextPair]_vars

\* The end-to-end scenario: the default grid (tile_size 128, coordinates -50..50),
\* max_concurrent_tasks 9, one observer of radius 1 at the world origin, and the
\* Update schedule of TerrainPlugin run for one tick.
InitE2E ==
    /\ GraceUnused
    /\ InitManager(128, <<-50, -50>>, <<50, 50>>, 9)
    /\ InitSpawners({1}, {<<0, 0>>}, 1)

NextE2E ==
    \/ ticks = 0 /\ Tracker
    \/ ticks = 0 /\ LoaderRun
    \/ ticks = 0 /\ Dispatch
    \/ ticks = 0 /\ \E ready \in SUBSET (DOMAIN pending) : Complete(ready)
    \/ ticks = 0 /\ EndTick

SpecE2E == InitE2E /\ [][NextE2E]_vars

\* The end-to-end scenario run on: the observer stays where it is, the
\* schedule runs tick after tick and jobs finish at any time.
NextSettle ==
    \/ Tracker
    \/ LoaderRun
    \/ LoaderSkip
    \/ Dispatch
    \/ \E ready \in SUBSET (DOMAIN pending) : Complete(ready)
    \/ EndTick

SpecSettle == InitE2E /\ [][NextSettle]_vars

\* The relocation scenario: a row of six tiles, max_concurrent_tasks 2, one
\* observer of radius 1 that starts over coordinate (1,0) and, once the
\* scheduler has converged, is moved over coordinate (4,0) and stays there.
StartPosition == <<2, 1>>
FarPosition == <<8, 1>>

InitRelocate ==
    /\ GraceUnused
    /\ InitManager(2, <<0, 0>>, <<5, 0>>, 2)
    /\ InitSpawners({1}, {StartPosition}, 1)

\* pending is empty and loaded is the desired set of the observers as they stand.
Converged ==
    /\ pending = Empty
    /\ tiles_to_load = << >>
    /\ ~spawnerChanged
    /\ \A s \in DOMAIN spawner : ~transformChanged[s]
    /\ DOMAIN loaded = Desired

\* The camera controller carries the observer from StartPosition to FarPosition.
Relocate(s) ==
    /\ Converged
    /\ transform[s] = StartPosition
    /\ transform' = [transform EXCEPT ![s] = FarPosition]
    /\ transformChanged' = [transformChanged EXCEPT ![s] = TRUE]
    /\ UNCHANGED <<spawner, spawnerChanged, managerVars, launched, ran, ticks>>
    /\ UNCHANGED live
    /\ UNCHANGED meshVars
    /\ UNCHANGED graceVars

\* terrain_tile_task_complete finds every job in flight finished.
CompleteAll == pending # Empty /\ Complete(DOMAIN pending)

NextRelocate ==
    \/ \E s \in DOMAIN spawner : Relocate(s)
    \/ Tracker
    \/ LoaderRun
    \/ LoaderSkip
    \/ Dispatch
    \/ \E ready \in SUBSET (DOMAIN pending) : Complete(ready)
    \/ EndTick

\* A system of the Update schedule runs, or the tick ends.
ScheduleStep ==
    \/ Tracker
    \/ LoaderRun
    \/ LoaderSkip
    \/ Dispatch
    \/ \E ready \in SUBSET (DOMAIN pending) : Complete(ready)
    \/ EndTick

\* The App keeps running its schedule (each tick runs every Update system
\* once), and every job terminates.
SpecRelocate ==
    /\ InitRelocate
    /\ [][NextRelocate]_vars
    /\ WF_vars(ScheduleStep)
    /\ SF_vars(CompleteAll)

\* The only observer is removed from the world (its entity is despawned or
\* loses its TerrainSpawner): the queries of the systems find no spawner.
Vanish(s) ==
    /\ DOMAIN spawner = {s}
    /\ spawner' = Empty
    /\ transform' = Empty
    /\ transformChanged' = Empty
    /\ spawnerChanged' = FALSE
    /\ UNCHANGED <<managerVars, launched, ran, ticks>>
    /\ UNCHANGED live
    /\ UNCHANGED meshVars
    /\ UNCHANGED graceVars

NextVanish ==
    \/ \E s \in DOMAIN spawner : Vanish(s)
    \/ Tracker
    \/ LoaderRun
    \/ LoaderSkip
    \/ Dispatch
    \/ \E ready \in SUBSET (DOMAIN pending) : Complete(ready)
    \/ EndTick

SpecVanish == Init /\ [][NextVanish]_vars

\* The scheduler under load: three tiles in a row, one job at a time, an
\* observer that moves and version bumps at any time.
InitSelfCorrect ==
    /\ GraceUnused
    /\ InitManager(2, <<0, 0>>, <<2, 0>>, 1)
    /\ InitSpawners({1}, WorldPositions, 1)

\* Every system of Update ran and the next tick begins; the ticks are not
\* counted.
NextTick ==
    /\ ran = Systems
    /\ ran' = {}
    /\ UNCHANGED <<transform, transformChanged, spawner, spawnerChanged, managerVars,
                   launched, ticks>>
    /\ UNCHANGED live
    /\ UNCHANGED meshVars
    /\ UNCHANGED graceVars

NextSelfCorrect ==
    \/ \E s \in DOMAIN spawner : Move(s)
    \/ Bump
    \/ Tracker
    \/ LoaderRun
    \/ LoaderSkip
    \/ Dispatch
    \/ \E ready \in SUBSET (DOMAIN pending) : Complete(ready)
    \/ NextTick

\* A step of the Update schedule.
UpdateStep ==
    \/ Tracker
    \/ LoaderRun
    \/ LoaderSkip
    \/ Dispatch
    \/ \E ready \in SUBSET (DOMAIN pending) : Complete(ready)
    \/ NextTick

\* The scheduling of the App: Update keeps running its systems tick after
\* tick, and every job on the task pool finishes, so a poll that finds all
\* jobs in flight finished recurs.
SpecSelfCorrect ==
    /\ InitSelfCorrect
    /\ [][NextSelfCorrect]_vars
    /\ WF_vars(UpdateStep)
    /\ SF_vars(CompleteAll)

\* The scheduler with max_concurrent_tasks set to 0.
InitStalled ==
    /\ GraceUnused
    /\ InitManager(2, <<0, 0>>, <<2, 0>>, 0)
    /\ InitSpawners({1}, WorldPositions, 1)

SpecStalled == InitStalled /\ [][Next]_vars

\* The scheduler over a resource whose grid range is inverted on the x axis
\* (grid_min.x > grid_max.x); the fields of TerrainManager are public and the
\* plugin takes the resource as it finds it.
InitInverted ==
    /\ GraceUnused
    /\ InitManager(2, <<2, 0>>, <<0, 0>>, 2)
    /\ InitSpawners({1}, WorldPositions, 1)

SpecInverted == InitInverted /\ [][Next]_vars

\* Where the observers of InitFootprint stand: at the upper end of the i32
\* range, inside and outside the grid.
FootprintPositions == {<<I32Max, 0>>, <<I32Max - 1, 2>>, <<I32Max - 4, 2>>}

\* Two observers at rest on a grid of three by two tiles of size 1 that ends
\* at i32::MAX, where the footprint's saturating_add saturates.
InitFootprint ==
    /\ GraceUnused
    /\ InitManager(1, <<I32Max - 2, 0>>, <<I32Max, 1>>, 1)
    /\ InitSpawners({1, 2}, FootprintPositions, 1)

SpecFootprint == InitFootprint /\ [][NextSettle]_vars

\* World positions on both sides of the origin, on and off tile boundaries.
CrossingPositions ==
    {<<-4, -1>>, <<-3, -3>>, <<-1, 0>>, <<0, 2>>, <<2, -1>>, <<3, 1>>}

\* An observer's Transform is moved across the world origin.
Cross(s) ==
    /\ \E p \in CrossingPositions :
        /\ p # transform[s]
        /\ transform' = [transform EXCEPT ![s] = p]
    /\ transformChanged' = [transformChanged EXCEPT ![s] = TRUE]
    /\ UNCHANGED <<spawner, spawnerChanged, managerVars, launched, ran, ticks>>
    /\ UNCHANGED live
    /\ UNCHANGED meshVars
    /\ UNCHANGED graceVars

\* One observer of radius 0, two tiles of size 3 on either side of the origin.
InitCrossing ==
    /\ GraceUnused
    /\ InitManager(3, <<-1, 0>>, <<0, 0>>, 1)
    /\ InitSpawners({1}, CrossingPositions, 0)

NextCrossing ==
    \/ \E s \in DOMAIN spawner : Cross(s)
    \/ Tracker
    \/ LoaderRun
    \/ LoaderSkip
    \/ Dispatch
    \/ \E ready \in SUBSET (DOMAIN pending) : Complete(ready)
    \/ EndTick

SpecCrossing == InitCrossing /\ [][NextCrossing]_vars

\* The coordinates generation jobs are run for.
MeshCoords == {<<0, 0>>, <<1, 0>>, <<0, 1>>, <<-1, -1>>}

\* The manager at rest with any resolution up to MaxResolution; no observer.
InitMesh ==
    /\ GraceUnused
    /\ tile_size = 2
    /\ grid_min = <<-1, -1>>
    /\ grid_max = <<1, 1>>
    /\ max_concurrent_tasks = 1
    /\ cache_version = 1
    /\ cache = Empty
    /\ tiles_to_load = << >>
    /\ pending = Empty
    /\ loaded = Empty
    /\ live = Empty
    /\ launched = << >>
    /\ ran = {}
    /\ ticks = 0
    /\ InitSpawners({}, WorldPositions, 1)
    /\ resolution \in 0..MaxResolution
    /\ generated = NoJob

\* TerrainManager.resolution is set between two ticks.
Configure ==
    /\ \E res \in 0..MaxResolution :
        /\ res # resolution
        /\ resolution' = res
    /\ UNCHANGED <<transform, transformChanged, spawner, spawnerChanged, managerVars,
                   live, launched, ran, ticks, generated>>
    /\ UNCHANGED graceVars

\* A worker runs generate_tile_mesh(coord, (tile_size, resolution, max_height),
\* terrain_colors) and returns its TileResult.
Generate(coord) ==
    /\ generated' = <<[resolution |-> resolution,
                       result |-> GenerateTileMesh(coord, resolution)]>>
    /\ UNCHANGED <<transform, transformChanged, spawner, spawnerChanged, managerVars,
                   live, launched, ran, ticks, resolution>>
    /\ UNCHANGED graceVars

NextMesh ==
    \/ Configure
    \/ \E coord \in MeshCoords : Generate(coord)

SpecMesh == InitMesh /\ [][NextMesh]_vars
----------------------------------------------------------------------------
\* The grace-period scheduler: systems.rs, chained in plugin.rs.

\* Where the loader's Transform can be: (x, z) of translation.
LoaderPositions == {<<1, 1>>, <<3, 1>>, <<-1, 1>>}

\* world_to_coord: floor(x / tile_size), floor(z / tile_size).
WorldToCoord(p, ts) == <<p[1] \div ts, p[2] \div ts>>

\* An entity of the chain; one is spawned per coordinate and tick at most.
Entity(coord, born) == [coord |-> coord, born |-> born]

\* The value of a HashMap<IVec2, f32> at c, Option::unwrap_or(d).
GetOr(m, c, d) == IF c \in DOMAIN m THEN m[c] ELSE d

\* The centres of all loaders.
Centers == {WorldToCoord(loader[l].translation, cfg.tile_size) : l \in DOMAIN loader}

\* desired: the square of radius_tiles around every loader.
GraceDesired ==
    UNION {LET center == WorldToCoord(loader[l].translation, cfg.tile_size)
               r == loader[l].radius_tiles
           IN {<<center[1] + dx, center[2] + dz>> : dx \in (0 - r)..r, dz \in (0 - r)..r}
           : l \in DOMAIN loader}

\* Touched leaving last_touched as it is.
TouchedNever(lt, desired, t) == lt

\* "Keep alive tiles we've touched": last_touched after the loop over desired.
Touched(lt, desired, t) ==
    [c \in DOMAIN lt \cup {d \in desired : d \in DOMAIN tiles \/ d \in DOMAIN state_pending} |->
        IF c \in desired /\ (c \in DOMAIN tiles \/ c \in DOMAIN state_pending)
        THEN t ELSE lt[c]]

\* Missing taking every desired coordinate for missing.
MissingAllDesired(desired) == desired

\* missing: the desired coordinates that are neither a tile nor pending.
Missing(desired) == {c \in desired : c \notin DOMAIN tiles /\ c \notin DOMAIN state_pending}

Abs(n) == IF n < 0 THEN 0 - n ELSE n

\* The sort key of missing: Manhattan distance to the nearest loader centre.
ManhattanKey(c) ==
    IF Centers = {} THEN 0
    ELSE SetMin({Abs(cc[1] - c[1]) + Abs(cc[2] - c[2]) : cc \in Centers})

\* missing.sort_by_key over the iteration order ord of the hash set.
SortedMissing(ord) ==
    LET keyed == SortByKey([i \in 1..Len(ord) |-> <<ManhattanKey(ord[i]), ord[i]>>])
    IN [i \in 1..Len(keyed) |-> keyed[i][2]]

\* usize::saturating_sub.
SaturatingSub(a, b) == IF a > b THEN a - b ELSE 0

\* Capacity looking at max_spawns_per_frame alone.
CapacityPerFrame == cfg.max_spawns_per_frame

\* capacity: the tasks queue_and_spawn_tasks_system may spawn in this run.
Capacity ==
    LET available == SaturatingSub(cfg.max_in_flight_tasks, Cardinality(DOMAIN state_pending))
    IN IF available < cfg.max_spawns_per_frame THEN available ELSE cfg.max_spawns_per_frame

\* Iterator::take.
Take(list, n) == SubSeq(list, 1, IF n < Len(list) THEN n ELSE Len(list))

\* ToUnmark walking the keys of last_touched instead of those of tiles.
ToUnmarkAnyKey(lt, desired, cutoff) ==
    {c \in DOMAIN lt : c \notin desired /\ lt[c] < cutoff}

\* to_unmark: the tiles out of range whose last touch is older than cutoff.
ToUnmark(lt, desired, cutoff) ==
    {c \in DOMAIN tiles : c \notin desired /\ GetOr(lt, c, 0) < cutoff}

\* The history after a run of the queue system saw the set desired.
SeenNow(desired) ==
    [c \in DOMAIN seenAt \cup desired |-> IF c \in desired THEN now ELSE seenAt[c]]

LeftNow(desired) ==
    [c \in ((DOMAIN leftAt) \cup (DOMAIN seenAt)) \ desired |->
        IF c \in DOMAIN leftAt THEN leftAt[c]
        ELSE [at |-> now, loaded |-> c \in DOMAIN tiles]]

\* The config and the loaders of an App with the grace-period TerrainPlugin.
InitGrace(ids, positions, radius, grace, perFrame, inFlight) ==
    /\ loader \in [ids -> [translation : positions, radius_tiles : {radius}]]
    /\ cfg = [tile_size |-> 2, despawn_grace_seconds |-> grace,
              max_spawns_per_frame |-> perFrame, max_in_flight_tasks |-> inFlight]
    /\ now = 0
    /\ stage = "idle"
    /\ tiles = Empty
    /\ state_pending = Empty
    /\ last_touched = Empty
    /\ world = Empty
    /\ seenAt = Empty
    /\ leftAt = Empty
    /\ despawnedAt = Empty

\* The cache-versioned scheduler is not part of this App.
ManagerUnused ==
    /\ InitManager(2, <<0, 0>>, <<2, 0>>, 2)
    /\ InitSpawners({}, WorldPositions, 1)

\* The camera controller moves the loader's Transform between two ticks.
MoveLoader(l) ==
    /\ stage = "idle"
    /\ \E p \in LoaderPositions :
        /\ p # loader[l].translation
        /\ loader' = [loader EXCEPT ![l].translation = p]
    /\ UNCHANGED <<cfg, now, stage, tiles, state_pending, last_touched, world,
                   seenAt, leftAt, despawnedAt>>
    /\ UNCHANGED pluginVars

\* A frame starts: Time advances by the frame's duration.
BeginTick ==
    /\ stage = "idle"
    /\ \E dt \in 1..MaxDelta :
        /\ now + dt <= MaxTime
        /\ now' = now + dt
    /\ stage' = "queue"
    /\ UNCHANGED <<loader, cfg, tiles, state_pending, last_touched, world,
                   seenAt, leftAt, despawnedAt>>
    /\ UNCHANGED pluginVars

\* queue_and_spawn_tasks_system.
QueueAndSpawn ==
    /\ stage = "queue"
    /\ \E desired \in {GraceDesired} :
       \E touched \in {Touched(last_touched, desired, now)} :
        /\ IF Capacity = 0
           THEN /\ last_touched' = touched
                /\ UNCHANGED <<state_pending, world>>
           ELSE \E ord \in IterOrders(Missing(desired)) :
                \E spawned \in {Range(Take(SortedMissing(ord), Capacity))} :
                \E lt \in {[c \in DOMAIN touched \cup spawned |->
                              IF c \in spawned THEN now ELSE touched[c]]} :
                    /\ state_pending' = [c \in DOMAIN state_pending \cup spawned |->
                          IF c \in spawned THEN Entity(c, now) ELSE state_pending[c]]
                    /\ world' = [e \in DOMAIN world \cup {Entity(c, now) : c \in spawned} |->
                          IF e \in DOMAIN world THEN world[e] ELSE "task"]
                    /\ last_touched' =
                          [c \in DOMAIN lt \ ToUnmark(lt, desired, now - cfg.despawn_grace_seconds)
                             |-> lt[c]]
        /\ seenAt' = SeenNow(desired)
        /\ leftAt' = LeftNow(desired)
        /\ despawnedAt' = [c \in DOMAIN despawnedAt \ desired |-> despawnedAt[c]]
    /\ stage' = "collect"
    /\ UNCHANGED <<loader, cfg, now, tiles>>
    /\ UNCHANGED pluginVars

\* collect_finished_tasks_system; ready is the set of tasks check_ready finds done.
CollectFinished(ready) ==
    /\ stage = "collect"
    /\ \A e \in ready : world[e] = "task"
    /\ world' = [e \in DOMAIN world |-> IF e \in ready THEN "tile" ELSE world[e]]
    /\ LET coords == {e.coord : e \in ready}
       IN /\ state_pending' = [c \in DOMAIN state_pending \ coords |-> state_pending[c]]
          /\ tiles' = [c \in DOMAIN tiles \cup coords |->
                IF c \in coords THEN CHOOSE e \in ready : e.coord = c ELSE tiles[c]]
          /\ last_touched' = [c \in DOMAIN last_touched \cup coords |->
                IF c \in coords THEN now ELSE last_touched[c]]
    /\ stage' = "gc"
    /\ UNCHANGED <<loader, cfg, now, seenAt, leftAt, despawnedAt>>
    /\ UNCHANGED pluginVars

\* garbage_collect_tiles_system.
GarbageCollect ==
    /\ stage = "gc"
    /\ LET to_despawn == {e \in DOMAIN world :
                            world[e] = "tile" /\ e.coord \notin DOMAIN last_touched}
           coords == {e.coord : e \in to_despawn}
       IN /\ tiles' = [c \in DOMAIN tiles \ coords |-> tiles[c]]
          /\ world' = [e \in DOMAIN world \ to_despawn |-> world[e]]
          /\ despawnedAt' = [c \in DOMAIN despawnedAt \cup coords |->
                IF c \in coords
                THEN GetOr(despawnedAt, c, << >>) \o
                     [i \in 1..Cardinality({e \in to_despawn : e.coord = c}) |-> now]
                ELSE despawnedAt[c]]
    /\ stage' = "idle"
    /\ UNCHANGED <<loader, cfg, now, state_pending, last_touched, seenAt, leftAt>>
    /\ UNCHANGED pluginVars

NextGrace ==
    \/ \E l \in DOMAIN loader : MoveLoader(l)
    \/ BeginTick
    \/ QueueAndSpawn
    \/ \E ready \in SUBSET {e \in DOMAIN world : world[e] = "task"} : CollectFinished(ready)
    \/ GarbageCollect

InitGraceApp ==
    /\ ManagerUnused
    /\ InitGrace({1}, LoaderPositions, 0, 3, 1, 1)

SpecGrace == InitGraceApp /\ [][NextGrace]_vars

\* A loader of radius 0 with room for two tasks in flight, one spawned per
\* frame.
InitGraceBusy ==
    /\ ManagerUnused
    /\ InitGrace({1}, LoaderPositions, 0, 1, 1, 2)

SpecGraceBusy == InitGraceBusy /\ [][NextGrace]_vars

\* A loader of radius 2 (twenty-five desired tiles) with six spawns per
\* frame and six tasks in flight.
InitGraceWide ==
    /\ ManagerUnused
    /\ InitGrace({1}, {<<1, 1>>}, 2, 1, 6, 6)

\* The chain with the loader at rest, run until the time MaxWideTime.
NextGraceAtRest ==
    \/ BeginTick /\ now' <= MaxWideTime
    \/ QueueAndSpawn
    \/ \E ready \in SUBSET {e \in DOMAIN world : world[e] = "task"} : CollectFinished(ready)
    \/ GarbageCollect

SpecGraceWide == InitGraceWide /\ [][NextGraceAtRest]_vars
----------------------------------------------------------------------------
\* Properties of the cache-versioned scheduler.

\* A step in which terrain_tile_loader ran (its run condition was true).
LoaderRunStep == "loader" \in ran' /\ "loader" \notin ran /\ spawnerChanged

\* The squared Euclidean grid distance of two coordinates.
SquaredDistance(a, b) == (a[1] - b[1]) * (a[1] - b[1]) + (a[2] - b[2]) * (a[2] - b[2])

\* The squared distance from coord to the nearest observer.
NearestObserver(coord) ==
    CHOOSE d \in {SquaredDistance(coord, spawner[s].coord) : s \in DOMAIN spawner} :
        \A s \in DOMAIN spawner : d <= SquaredDistance(coord, spawner[s].coord)

\* coord lies within the inclusive grid bounds.
WithinBounds(coord) ==
    /\ grid_min[1] <= coord[1] /\ coord[1] <= grid_max[1]
    /\ grid_min[2] <= coord[2] /\ coord[2] <= grid_max[2]

\* C1: after every run of the loader, of dispatch and of complete, in any
\* order and for any moves, job completions and version bumps, no coordinate
\* is a key of both pending and loaded.
C1_PendingLoadedDisjoint == (DOMAIN pending) \cap (DOMAIN loaded) = {}

\* C1 witness: after a version bump some tiles are loaded while other jobs
\* are in flight.
C1_Witness == pending # Empty /\ loaded # Empty /\ cache_version > 1

\* C2: with max_concurrent_tasks constant, pending never holds more than
\* max_concurrent_tasks jobs.
C2_ConcurrencyBound == Cardinality(DOMAIN pending) <= max_concurrent_tasks

\* C2 witness: every slot is taken and a coordinate is still queued.
C2_Witness ==
    Cardinality(DOMAIN pending) = max_concurrent_tasks /\ tiles_to_load # << >>

\* C3: with grid_min and grid_max constant, every coordinate that is
\* desired, queued, pending or loaded lies within the grid bounds.
C3_BoundsRespected ==
    \A coord \in Desired \cup Range(tiles_to_load) \cup (DOMAIN pending) \cup (DOMAIN loaded) :
        WithinBounds(coord)

\* C3 witness: an observer's footprint reaches out of the grid while tiles
\* are loaded and jobs are in flight.
C3_Witness ==
    /\ \E s \in DOMAIN spawner : \E coord \in Neighborhood(s) : ~WithinBounds(coord)
    /\ loaded # Empty
    /\ pending # Empty

\* C4: a loader run spawns a tile from a cache entry only when the entry's
\* version is cache_version; a desired, not loaded coordinate whose entry has
\* another version loses that entry in the same run, is not loaded by it and
\* is put on tiles_to_load unless it is pending.
C4_LoaderUsesFreshEntriesOnly ==
    [][LoaderRunStep =>
        /\ \A coord \in (DOMAIN loaded') \ (DOMAIN loaded) :
            /\ coord \in DOMAIN cache
            /\ cache[coord].version = cache_version
            /\ loaded'[coord].mesh_handle = cache[coord].mesh_handle
        /\ \A coord \in Desired \ (DOMAIN loaded) :
            (coord \in DOMAIN cache /\ cache[coord].version # cache_version) =>
                /\ coord \notin DOMAIN cache'
                /\ coord \notin DOMAIN loaded'
                /\ (coord \in Range(tiles_to_load') <=> coord \notin DOMAIN pending)]_vars

\* C4 witness: the loader is about to run over a desired, not loaded
\* coordinate with a stale entry and over one with a fresh entry.
C4_Witness ==
    /\ spawnerChanged
    /\ "loader" \notin ran
    /\ \E a, b \in Desired \ (DOMAIN loaded) :
        /\ a \in DOMAIN cache /\ cache[a].version # cache_version
        /\ b \in DOMAIN cache /\ cache[b].version = cache_version

\* C5: a change of cache_version removes no cache entry; an entry of an
\* older version stays in the cache as it is until a loader run reaches its
\* coordinate (desired and not loaded), and that run evicts it and does not
\* load the coordinate; no step loads a coordinate whose entry is stale.
C5_LazyInvalidation ==
    [][/\ cache_version' # cache_version => cache' = cache
       /\ \A coord \in DOMAIN cache :
            cache[coord].version # cache_version =>
                /\ \/ coord \in DOMAIN cache' /\ cache'[coord] = cache[coord]
                   \/ /\ LoaderRunStep
                      /\ coord \in Desired
                      /\ coord \notin DOMAIN loaded
                      /\ coord \notin DOMAIN cache'
                /\ coord \in DOMAIN loaded' => coord \in DOMAIN loaded]_vars

\* C5 witness: an entry built under an older version is still in the cache
\* although its coordinate is not desired.
C5_Witness ==
    \E coord \in DOMAIN cache :
        cache[coord].version < cache_version /\ coord \notin Desired

\* C6: after a bump no artifact of a job dispatched before the bump becomes
\* a current-version cache entry or a tile.
C6_NoPreBumpArtifactIsCurrent ==
    [][/\ \A coord \in DOMAIN cache' :
            (coord \notin DOMAIN cache \/ cache'[coord] # cache[coord]) =>
                ~(/\ cache'[coord].version = cache_version'
                  /\ cache'[coord].mesh_handle.snapshot < cache_version')
       /\ \A coord \in (DOMAIN loaded') \ (DOMAIN loaded) :
            loaded'[coord].mesh_handle.snapshot = cache_version']_vars

\* C7: dispatch launches in ascending order of the squared distance to the
\* nearest observer, and no launched coordinate is farther than a coordinate
\* it left queued.
C7_NearestFirst ==
    /\ \A i, j \in 1..Len(launched) :
        i < j => NearestObserver(launched[i]) <= NearestObserver(launched[j])
    /\ \A i \in 1..Len(launched) : \A coord \in Range(tiles_to_load) :
        NearestObserver(launched[i]) <= NearestObserver(coord)

\* C7 witness: with two observers apart, two jobs were launched, each for
\* the coordinate of another observer, and a farther coordinate is left
\* queued.
C7_Witness ==
    /\ Len(launched) = 2
    /\ \E s1, s2 \in DOMAIN spawner :
        /\ spawner[s1].coord # spawner[s2].coord
        /\ launched[1] = spawner[s1].coord
        /\ launched[2] = spawner[s2].coord
    /\ \E coord \in Range(tiles_to_load) :
        NearestObserver(launched[2]) < NearestObserver(coord)
----------------------------------------------------------------------------
\* Properties of the grace-period scheduler.

\* The coordinates whose loaded tile was found out of range by an earlier tick
\* and that the tick about to run finds desired again.
ReEntering ==
    {c \in GraceDesired \cap DOMAIN leftAt : leftAt[c].loaded}

\* C8 as stated: a loaded tile whose coordinate leaves the desired set at time T
\* (the first tick that finds it absent) and re-enters at a tick before
\* T + despawn_grace_seconds has not been despawned, nor removed from state.tiles.
C8_ReEntryWithinGraceOfExit ==
    stage = "queue" =>
        \A c \in ReEntering :
            now < leftAt[c].at + cfg.despawn_grace_seconds
                => c \in DOMAIN tiles /\ c \notin DOMAIN despawnedAt

\* C8, amended: the grace period runs from the last tick that found the
\* coordinate desired.  A loaded tile whose coordinate was last desired at tick
\* time T0 and is desired again at a tick no later than T0 + despawn_grace_seconds
\* has not been despawned, nor removed from state.tiles.
C8_ReEntryWithinGraceOfLastSeen ==
    stage = "queue" =>
        \A c \in ReEntering :
            now <= seenAt[c] + cfg.despawn_grace_seconds
                => c \in DOMAIN tiles /\ c \notin DOMAIN despawnedAt

\* A tile that was absent for at least one tick re-enters within the grace period.
C8_Witness ==
    /\ stage = "queue"
    /\ \E c \in ReEntering :
        /\ leftAt[c].at < now
        /\ now <= seenAt[c] + cfg.despawn_grace_seconds
        /\ c \in DOMAIN tiles

\* C9: at the end of a tick, a tile that was loaded when its coordinate left the
\* desired set and that has been absent for longer than despawn_grace_seconds
\* is gone from state.tiles, and its entity got exactly one despawn.
C9_DespawnedOnceAfterGrace ==
    stage = "idle" =>
        \A c \in DOMAIN leftAt :
            (leftAt[c].loaded /\ now - leftAt[c].at > cfg.despawn_grace_seconds)
                => /\ c \notin DOMAIN tiles
                   /\ c \in DOMAIN despawnedAt
                   /\ Len(despawnedAt[c]) = 1

----------------------------------------------------------------------------
\* The end-to-end scenario of the cache-versioned scheduler.

\* The coordinates {-1, 0, 1} x {-1, 0, 1}.
NineAroundOrigin == {<<x, y>> : x \in (0 - 1)..1, y \in (0 - 1)..1}

\* C10: from the empty state, with the observer at coordinate (0,0), radius 1 and
\* max_concurrent_tasks 9, after one tick of the schedule in which no job was
\* collected exactly the nine coordinates around the origin are pending.
C10_NinePendingAfterOneTick ==
    (ticks = 1 /\ ran = {} /\ loaded = Empty) => DOMAIN pending = NineAroundOrigin


\* The loader has run since the last change of an observer, nothing is
\* queued and no job is in flight.
Quiescent == ~spawnerChanged /\ tiles_to_load = << >> /\ pending = Empty

\* C11: in the end-to-end scenario with the observer not moving, once every
\* job has finished and been collected, loaded holds exactly the nine
\* coordinates around the origin, pending is empty, and the cache holds
\* exactly nine entries, each of version cache_version.
C11_NineLoadedAndCached ==
    Quiescent =>
        /\ DOMAIN loaded = NineAroundOrigin
        /\ pending = Empty
        /\ DOMAIN cache = NineAroundOrigin
        /\ \A coord \in DOMAIN cache : cache[coord].version = cache_version

\* C11 witness: the nine jobs were collected over more than one run of
\* terrain_tile_task_complete and the schedule is between two ticks.
C11_Witness ==
    /\ Quiescent
    /\ ran = {}
    /\ DOMAIN loaded = NineAroundOrigin
    /\ Cardinality(DOMAIN cache) = 9


\* The in-grid neighborhood of the coordinate under world position p, radius 1.
FootprintAt(p) ==
    {coord \in {<<(p[1] \div tile_size) + dx, (p[2] \div tile_size) + dz>> :
                    dx \in (0 - 1)..1, dz \in (0 - 1)..1} : WithinBounds(coord)}

\* The observer has been moved to FarPosition.
Relocated == \A s \in DOMAIN transform : transform[s] = FarPosition

\* Exactly the new neighborhood is loaded and nothing is left to do.
NewNeighborhoodLoaded ==
    /\ DOMAIN loaded = FootprintAt(FarPosition)
    /\ pending = Empty
    /\ tiles_to_load = << >>

\* C12: from a converged state, after the only observer is moved so that its
\* neighborhood is disjoint from the old one, the ticks lead to a state, kept
\* from then on, in which no tile of the old neighborhood is loaded and
\* exactly the coordinates of the new neighborhood are; and every loader run
\* unloads at once every tile outside the desired set.
C12_RelocationConverges ==
    /\ [](Relocated => <>[]NewNeighborhoodLoaded)
    /\ [][LoaderRunStep => (DOMAIN loaded') \subseteq Desired]_vars

\* C12 witness: after the move the old neighborhood is gone, the new one is
\* loaded, and the two are disjoint.
C12_Witness ==
    /\ Relocated
    /\ NewNeighborhoodLoaded
    /\ FootprintAt(StartPosition) \cap FootprintAt(FarPosition) = {}
    /\ FootprintAt(StartPosition) # {}
    /\ DOMAIN cache = FootprintAt(StartPosition) \cup FootprintAt(FarPosition)


\* A step in which terrain_tile_task_complete ran.
CompleteStep == "complete" \in ran' /\ "complete" \notin ran

\* C13: when terrain_tile_task_complete collects the job of a coordinate that
\* is not in the desired set at that time, the coordinate leaves pending and
\* is not added to loaded (no live tile is spawned for it).
C13_UndesiredResultNotSpawned ==
    [][CompleteStep =>
        \A coord \in (DOMAIN pending) \ (DOMAIN pending') :
            coord \notin Desired =>
                coord \notin DOMAIN loaded' \/ coord \in DOMAIN loaded]_vars


\* A step in which terrain_tile_task_dispatch ran.
DispatchStep == "dispatch" \in ran' /\ "dispatch" \notin ran

\* C14: within every tick the loader (unload, then gap resolution) runs
\* before dispatch, and dispatch runs before collection.
C14_FixedPhaseOrder ==
    [][/\ DispatchStep => "loader" \in ran
       /\ CompleteStep => "dispatch" \in ran]_vars


\* The step of a tick at which terrain_tile_loader is due: it runs, or its
\* run condition is false and it is skipped.
LoaderDueStep == "loader" \in ran' /\ "loader" \notin ran

\* C15: the desired set is recomputed on every tick from the observers of
\* that tick: the loader phase leaves exactly the loaded tiles that are
\* desired, so with zero observers it leaves no tile loaded.
C15_DesiredRecomputedEveryTick ==
    [][LoaderDueStep =>
        /\ (DOMAIN loaded') \subseteq Desired
        /\ spawner = Empty => loaded' = Empty]_vars


\* The cache holds an entry of coord tagged with the current version.
FreshCached(coord) ==
    coord \in DOMAIN cache /\ CacheFresh(cache[coord], cache_version)

\* The coordinates a step takes off tiles_to_load.
LeavesQueue == Range(tiles_to_load) \ Range(tiles_to_load')

\* What dispatch found of a coordinate it took off the queue: it launched
\* a job for it, or the coordinate was loaded, fresh in the cache or pending.
Dispatched(coord) ==
    \/ coord \in Range(launched')
    \/ coord \in DOMAIN loaded
    \/ FreshCached(coord)
    \/ coord \in DOMAIN pending

NoDuplicates(q) == \A i, j \in 1..Len(q) : i # j => q[i] # q[j]

\* C17: a coordinate appears at most once in tiles_to_load, also when the
\* footprints of several observers demand it; a run of dispatch launches at
\* most one job per coordinate, none for a coordinate that has a pending job
\* already, and leaves the jobs that were pending as they were.
C17_OneJobPerCoordinate ==
    /\ [](NoDuplicates(tiles_to_load))
    /\ [][DispatchStep =>
            /\ NoDuplicates(launched')
            /\ Range(launched') \cap DOMAIN pending = {}
            /\ DOMAIN pending' = DOMAIN pending \cup Range(launched')
            /\ \A coord \in DOMAIN pending : pending'[coord] = pending[coord]]_vars

\* C17 witness: two observers at different coordinates, a coordinate in both
\* footprints; dispatch has just launched its job.
C17_Witness ==
    /\ "dispatch" \in ran
    /\ \E s1, s2 \in DOMAIN spawner :
        /\ spawner[s1].coord # spawner[s2].coord
        /\ \E coord \in Neighborhood(s1) \cap Neighborhood(s2) :
            /\ InGrid(coord)
            /\ coord \in Range(launched)
            /\ coord \in DOMAIN pending


\* C18: between any two system runs tiles_to_load holds no coordinate that
\* is loaded and none that has a pending job.
C18_QueueDisjointFromLoadedAndPending ==
    Range(tiles_to_load) \cap (DOMAIN loaded \cup DOMAIN pending) = {}

\* C18 witness: after the loader's turn a coordinate is queued while another
\* one is loaded and a third has a pending job.
C18_Witness ==
    /\ "loader" \in ran
    /\ tiles_to_load # << >>
    /\ loaded # Empty
    /\ pending # Empty
    /\ DOMAIN loaded \cap DOMAIN pending = {}


\* The jobs a step takes out of pending: those whose poll gave a result.
Finished == DOMAIN pending \ DOMAIN pending'

C20_CacheOutlivesUnload ==
    [][/\ LoaderRunStep =>
            \A coord \in (DOMAIN loaded) \ (DOMAIN loaded') :
                coord \in DOMAIN cache => /\ coord \in DOMAIN cache'
                                          /\ cache'[coord] = cache[coord]
       /\ cache_version' = cache_version =>
            \A coord \in DOMAIN cache :
                FreshCached(coord) => /\ coord \in DOMAIN cache'
                                      /\ cache'[coord] = cache[coord]
       /\ LoaderRunStep =>
            /\ pending' = pending
            /\ \A coord \in Desired \ (DOMAIN loaded) :
                FreshCached(coord) =>
                    /\ coord \in DOMAIN loaded'
                    /\ loaded'[coord].mesh_handle = cache[coord].mesh_handle
                    /\ coord \notin Range(tiles_to_load')
                    /\ coord \notin DOMAIN pending']_vars

\* C20 witness: a coordinate that was loaded and then unloaded (its entry is
\* still in the cache, fresh, no tile and no job exist for it) is desired
\* again, and the loader is about to run; another coordinate stayed loaded.
C20_Witness ==
    /\ spawnerChanged
    /\ "loader" \notin ran
    /\ \E coord \in Desired \ (DOMAIN loaded) :
        /\ FreshCached(coord)
        /\ coord \notin DOMAIN pending
        /\ coord \notin Range(tiles_to_load)
    /\ loaded # Empty


\* Every coordinate the observers demand as they stand is loaded.
DesiredLoaded == Desired \subseteq DOMAIN loaded

\* C21: if from some point on no observer is moved (the limit is 1 and every
\* job finishes), then from some point on every desired coordinate is loaded
\* and stays loaded, whatever the saturation of the limit and whatever
\* stale entries the version bumps left in the cache.
C21_DesiredEventuallyLoaded ==
    (<>[][transform' = transform]_vars) => <>[]DesiredLoaded

\* C21 witness: the limit is saturated while a desired coordinate waits in
\* the queue and a stale entry lies in the cache.
C21_Witness ==
    /\ Cardinality(DOMAIN pending) = max_concurrent_tasks
    /\ max_concurrent_tasks > 0
    /\ \E coord \in Range(tiles_to_load) : coord \in Desired
    /\ \E coord \in DOMAIN cache : cache[coord].version < cache_version


\* C22: with max_concurrent_tasks = 0 no job is ever launched and pending
\* stays empty, and a run of dispatch leaves tiles_to_load and every other
\* field of the manager as it found them.
C22_ZeroLimitDispatchIsNoOp ==
    /\ [](max_concurrent_tasks = 0 => pending = Empty /\ launched = << >>)
    /\ [][max_concurrent_tasks = 0 /\ DispatchStep =>
            /\ tiles_to_load' = tiles_to_load
            /\ UNCHANGED <<pending, cache, loaded, cache_version>>]_vars

\* C22 witness: with the limit at 0, dispatch ran in a later tick over a
\* queue of three coordinates and all of them are still queued.
C22_Witness ==
    /\ max_concurrent_tasks = 0
    /\ ticks > 0
    /\ "dispatch" \in ran
    /\ "loader" \in ran
    /\ Len(tiles_to_load) = 3
    /\ pending = Empty


\* A configuration that is not legal: a tile size that is not positive or a
\* grid range inverted on an axis.
InvalidConfiguration ==
    \/ tile_size <= 0
    \/ grid_min[1] > grid_max[1]
    \/ grid_min[2] > grid_max[2]

\* C23: an invalid configuration is rejected when it is set: no system of
\* the Update schedule runs and no tick is completed with it.
C23_InvalidConfigurationNeverRuns ==
    InvalidConfiguration => (ran = {} /\ ticks = 0)


\* The coordinates dispatch launches, in order, when tiles_to_load holds its
\* coordinates in the order queue.
LaunchOf(queue) ==
    DispatchWalk(DispatchList(queue),
                 [pending |-> pending, spawned_set |-> {}, launched |-> << >>]).launched

\* C24: what a run of dispatch launches, and in which order, is determined
\* by cache, pending, loaded, the observers and the set of queued
\* coordinates: in whatever order the loader's pass over the desired set had
\* queued the same coordinates, the launch would have been the same.
C24_LaunchDeterminedByState ==
    [][DispatchStep =>
        \A queue \in Orderings(Range(tiles_to_load)) : LaunchOf(queue) = launched']_vars


\* C25: the live tile entities correspond one to one to the entries of
\* loaded: every coordinate of loaded has exactly one live tile entity and
\* no other coordinate has one (none is spawned twice, left alive after its
\* entry was removed, or despawned without being alive); a step spawns a
\* tile only for a coordinate that had no entry and records it in loaded.
C25_LiveTilesMatchLoaded ==
    /\ [](/\ DOMAIN live = DOMAIN loaded
          /\ \A coord \in DOMAIN live : live[coord] = 1)
    /\ [][\A coord \in (DOMAIN live') \ (DOMAIN live) :
            coord \notin DOMAIN loaded /\ coord \in DOMAIN loaded']_vars

\* C25 witness: one tile is alive and loaded while another one, spawned
\* earlier (its mesh is in the cache), was unloaded and despawned.
C25_Witness ==
    /\ loaded # Empty
    /\ live = [coord \in DOMAIN loaded |-> 1]
    /\ \E coord \in DOMAIN cache : coord \notin DOMAIN loaded /\ coord \notin DOMAIN live

----------------------------------------------------------------------------
\* Further properties of the grace-period scheduler.

\* The coordinates for which a step spawned a build task.
TaskSpawnedFor ==
    {c \in DOMAIN state_pending' :
        c \notin DOMAIN state_pending \/ state_pending'[c] # state_pending[c]}

\* C26: between the chained systems no coordinate is a key of both
\* state.pending and state.tiles, and a build task is spawned only for a
\* coordinate that is a key of neither.
C26_PendingAndTilesDisjoint ==
    /\ [](DOMAIN state_pending \cap DOMAIN tiles = {})
    /\ [][\A c \in TaskSpawnedFor : c \notin DOMAIN tiles /\ c \notin DOMAIN state_pending]_vars

\* C26 witness: the queue system has just spawned a task for the desired
\* coordinate while another task is in flight and a tile exists.
C26_Witness ==
    /\ stage = "collect"
    /\ \E c \in DOMAIN state_pending : state_pending[c].born = now /\ c \in GraceDesired
    /\ Cardinality(DOMAIN state_pending) = 2
    /\ tiles # Empty


\* A step in which queue_and_spawn_tasks_system ran.
QueueStep == stage = "queue" /\ stage' = "collect"

Min(a, b) == IF a < b THEN a ELSE b

EuclideanKey(c) == SetMin({SquaredDistance(cc, c) : cc \in Centers})

\* C28: when a run of queue_and_spawn_tasks_system leaves missing
\* coordinates without a task, none of them is strictly nearer to a loader,
\* by squared Euclidean distance, than a coordinate that got one.
C28_NearestByEuclideanDistance ==
    [][QueueStep =>
        \A spawned \in TaskSpawnedFor :
        \A skipped \in Missing(GraceDesired) \ TaskSpawnedFor :
            EuclideanKey(skipped) >= EuclideanKey(spawned)]_vars


\* C29: a run of terrain_tile_loader removes from loaded exactly the entries
\* whose coordinate is not desired and despawns their entities; the entries
\* of desired coordinates stay as they are with their entities alive;
\* pending is left unchanged, and so is every cache entry of a coordinate
\* that is not desired (the rest of the run touches desired coordinates only).
C29_UnloadExactlyUndesired ==
    [][LoaderRunStep =>
        /\ \A coord \in DOMAIN loaded :
            IF coord \in Desired
            THEN /\ coord \in DOMAIN loaded' /\ loaded'[coord] = loaded[coord]
                 /\ coord \in DOMAIN live' /\ live'[coord] = live[coord]
            ELSE coord \notin DOMAIN loaded' /\ coord \notin DOMAIN live'
        /\ pending' = pending
        /\ DOMAIN cache' \subseteq DOMAIN cache
        /\ \A coord \in (DOMAIN cache) \ Desired :
            coord \in DOMAIN cache' /\ cache'[coord] = cache[coord]]_vars

\* C29 witness: the loader is about to run with a loaded tile that is no
\* longer desired, a loaded tile that still is, and a job in flight.
C29_Witness ==
    /\ spawnerChanged
    /\ "loader" \notin ran
    /\ (DOMAIN loaded) \ Desired # {}
    /\ (DOMAIN loaded) \cap Desired # {}
    /\ pending # Empty
    /\ DOMAIN loaded \subseteq DOMAIN cache


\* C30: terrain_tile_task_complete does not wait: whenever it is due it can
\* run and find no job finished; a job it does not collect stays in pending
\* under its coordinate, unchanged, and no job is added: a job leaves
\* pending only by having its result loaded; a run that loads nothing
\* leaves pending, loaded, cache, tiles_to_load and the tile entities as
\* they were.
C30_CompleteDoesNotWait ==
    /\ []("complete" \notin ran => ENABLED Complete({}))
    /\ [][CompleteStep =>
            /\ DOMAIN pending' \subseteq DOMAIN pending
            /\ \A coord \in DOMAIN pending' : pending'[coord] = pending[coord]
            /\ \A coord \in Finished :
                    coord \notin DOMAIN loaded /\ coord \in DOMAIN loaded'
            /\ tiles_to_load' = tiles_to_load
            /\ DOMAIN loaded' = DOMAIN loaded =>
                    UNCHANGED <<pending, loaded, cache, tiles_to_load, live>>]_vars

\* C30 witness: complete ran, before this tick's dispatch, over two jobs
\* launched in an earlier tick; none had finished (nothing was ever loaded
\* or cached) and both are still pending.
C30_Witness ==
    /\ "complete" \in ran
    /\ "dispatch" \notin ran
    /\ Cardinality(DOMAIN pending) = 2
    /\ loaded = Empty
    /\ cache = Empty


\* The coordinates of the grid, bounds included.
GridCoords ==
    {<<grid_min[1] + i, grid_min[2] + j>> :
        i \in 0..(grid_max[1] - grid_min[1]),
        j \in 0..(grid_max[2] - grid_min[2])}

\* |a - b| <= r for two i32 values, written without leaving the i32 range.
WithinDistance(a, b, r) ==
    \E d \in (0 - r)..r :
        /\ d <= 0 \/ a <= I32Max - d
        /\ d >= 0 \/ a >= I32Min - d
        /\ b = a + d

\* The coordinates of the grid within Chebyshev distance radius of an observer.
ChebyshevInGrid ==
    {c \in GridCoords :
        \E s \in DOMAIN spawner :
            /\ WithinDistance(spawner[s].coord[1], c[1], spawner[s].radius)
            /\ WithinDistance(spawner[s].coord[2], c[2], spawner[s].radius)}

\* C31: the desired set of the loader is exactly the set of grid coordinates
\* within the Chebyshev radius of some observer; after a run of the loader
\* each of them is loaded, pending or queued, nothing else is loaded or
\* queued, and none is queued twice.
C31_DesiredIsChebyshevInGrid ==
    /\ [](Desired = ChebyshevInGrid)
    /\ [][LoaderRunStep =>
            /\ ChebyshevInGrid =
                 ((DOMAIN loaded') \cup Range(tiles_to_load')) \cup
                 (ChebyshevInGrid \cap DOMAIN pending)
            /\ NoDuplicates(tiles_to_load')]_vars

\* C31 witness: the loader ran for two observers at different coordinates,
\* one of them at i32::MAX; their squares overlap and reach out of the grid.
C31_Witness ==
    /\ "loader" \in ran
    /\ tiles_to_load # << >>
    /\ \E s1, s2 \in DOMAIN spawner :
        /\ spawner[s1].coord[1] = I32Max
        /\ spawner[s1].coord # spawner[s2].coord
        /\ Neighborhood(s1) \cap Neighborhood(s2) \cap GridCoords # {}
        /\ Neighborhood(s2) \ GridCoords # {}
        /\ ~(GridCoords \subseteq Desired)


\* k is the cell of p on both horizontal axes: k*ts <= p < (k+1)*ts.
FloorCell(k, p, ts) ==
    \A axis \in {1, 2} : k[axis] * ts <= p[axis] /\ p[axis] < (k[axis] + 1) * ts

\* The tile sizes the conversions are evaluated for.
TileSizes == {1, 2, 3}

\* C32: the conversion from world position to grid coordinate is floor
\* division: a spawner the tracker has seen holds the coordinate k with
\* k*s <= p < (k+1)*s on both axes, the tracker stores exactly that
\* coordinate, and world_to_coord maps [-s, 0) to -1 and [0, s) to 0.
C32_FloorDivision ==
    /\ [](\A s \in DOMAIN spawner :
            ~transformChanged[s] => FloorCell(spawner[s].coord, transform[s], tile_size))
    /\ [][Tracker =>
            \A s \in DOMAIN spawner :
                FloorCell(spawner'[s].coord, transform[s], tile_size)]_vars
    /\ [](\A p \in CrossingPositions, ts \in TileSizes :
            /\ FloorCell(WorldToCoord(p, ts), p, ts)
            /\ FloorCell(WorldToGrid(p, ts), p, ts)
            /\ \A axis \in {1, 2} :
                /\ (0 - ts <= p[axis] /\ p[axis] < 0) => WorldToCoord(p, ts)[axis] = -1
                /\ (0 <= p[axis] /\ p[axis] < ts) => WorldToCoord(p, ts)[axis] = 0)

\* C32 witness: the tracker has converted a position that lies strictly
\* between -tile_size and 0 on the x axis (truncation would give 0) after the
\* observer had stood at a non-negative coordinate.
C32_Witness ==
    /\ "tracker" \in ran
    /\ spawnerChanged
    /\ \E s \in DOMAIN spawner :
        /\ ~transformChanged[s]
        /\ 0 - tile_size < transform[s][1] /\ transform[s][1] < 0
        /\ spawner[s].coord[1] = -1
        /\ \E coord \in DOMAIN loaded : coord[1] >= 0


\* result is what the claim describes for a job that captured resolution res.
MeshAsDescribed(res, result) ==
    LET R == IF res > 2 THEN res ELSE 2
        m == result.mesh
    IN /\ Len(m.positions) = R * R
       /\ Len(m.normals) = R * R
       /\ Len(m.colors) = R * R
       /\ Len(m.indices) = 6 * (R - 1) * (R - 1)
       /\ \A n \in 1..Len(m.indices) : m.indices[n] >= 0 /\ m.indices[n] < R * R
       /\ \A j, i \in 0..(R - 2) :
            LET at == 6 * (j * (R - 1) + i)
                i0 == j * R + i
                i1 == i0 + 1
                i2 == i0 + R
                i3 == i0 + R + 1
            IN SubSeq(m.indices, at + 1, at + 6) = <<i0, i2, i1, i1, i2, i3>>

\* C33: every job that returned, for any resolution (0 and 1 included),
\* returned R*R positions, normals and colors with R = max(resolution, 2) and
\* 6*(R-1)^2 indices below R*R, the cell with origin i0 giving (i0, i2, i1)
\* and then (i1, i2, i3), i1 = i0+1, i2 = i0+R, i3 = i0+R+1; a job can be run
\* for every coordinate at every resolution.
C33_MeshShape ==
    /\ \A coord \in MeshCoords : ENABLED Generate(coord)
    /\ \A n \in 1..Len(generated) :
        MeshAsDescribed(generated[n].resolution, generated[n].result)

\* C33 witness: a job that captured resolution 0 returned the one-cell mesh.
C33_Witness ==
    /\ Len(generated) = 1
    /\ generated[1].resolution = 0
    /\ Len(generated[1].result.mesh.positions) = 4
    /\ generated[1].result.mesh.indices = <<0, 2, 1, 1, 2, 3>>


\* The tiles a run of queue_and_spawn_tasks_system finds expired: out of the
\* desired set and last touched before now - despawn_grace_seconds.
Expired ==
    {c \in DOMAIN tiles :
        /\ c \notin GraceDesired
        /\ GetOr(last_touched, c, 0) < now - cfg.despawn_grace_seconds}

\* C34: every run of queue_and_spawn_tasks_system removes the timestamp of
\* every expired tile, whatever the task capacity of the run is, so that
\* garbage_collect_tiles_system despawns the tile in the same tick.
C34_MarkingIndependentOfCapacity ==
    [][QueueStep => \A c \in Expired : c \notin DOMAIN last_touched']_vars


\* C35: between two ticks the keys of state.last_touched are exactly the keys
\* of state.tiles and state.pending together.
C35_TimestampsMatchTilesAndPending ==
    stage = "idle" => DOMAIN last_touched = DOMAIN tiles \cup DOMAIN state_pending


\* C35 witness: a tick ended with one tile loaded, one task pending and a
\* third coordinate's tile despawned after its timestamp was removed.
C35_Witness ==
    /\ stage = "idle"
    /\ DOMAIN tiles # {}
    /\ DOMAIN state_pending # {}
    /\ \E c \in DOMAIN despawnedAt :
        /\ Len(despawnedAt[c]) > 0
        /\ c \notin DOMAIN last_touched


\* C36: every loaded coordinate has a cache entry with the mesh handle of its
\* tile, and a step that removes a cache entry removes the entry of a
\* coordinate that is not loaded before the step and not loaded after it.
C36_LoadedIsCached ==
    /\ [](\A coord \in DOMAIN loaded :
            /\ coord \in DOMAIN cache
            /\ cache[coord].mesh_handle = loaded[coord].mesh_handle)
    /\ [][\A coord \in (DOMAIN cache) \ (DOMAIN cache') :
            /\ coord \notin DOMAIN loaded
            /\ coord \notin DOMAIN loaded']_vars


\* C36 witness: after the loader's turn in a tick, a loaded tile has a cache
\* entry of an older version with its handle, while another desired
\* coordinate has no entry and waits in the queue.
C36_Witness ==
    /\ "loader" \in ran
    /\ \E coord \in DOMAIN loaded :
        /\ coord \in Desired
        /\ cache[coord].version < cache_version
        /\ cache[coord].mesh_handle = loaded[coord].mesh_handle
    /\ \E coord \in Range(tiles_to_load) : coord \notin DOMAIN cache


\* The loaded, desired coordinates whose cache entry is of an older version.
LoadedStale ==
    {coord \in (DOMAIN loaded) \cap Desired :
        coord \in DOMAIN cache /\ ~CacheFresh(cache[coord], cache_version)}

\* C37: a bump of cache_version changes no tile, cache entry, queue or job;
\* while a loaded tile with an entry of an older version stays desired, every
\* step keeps its tile and its cache entry as they are and neither queues its
\* coordinate nor launches a job for it; a job is launched only for a
\* coordinate that is not loaded.
C37_BumpKeepsLoadedTiles ==
    [][/\ cache_version' # cache_version =>
            UNCHANGED <<loaded, cache, tiles_to_load, pending, live>>
       /\ \A coord \in LoadedStale :
            coord \in Desired' =>
                /\ coord \in DOMAIN loaded' /\ loaded'[coord] = loaded[coord]
                /\ coord \in DOMAIN cache' /\ cache'[coord] = cache[coord]
                /\ live'[coord] = live[coord]
                /\ coord \notin Range(tiles_to_load')
                /\ coord \in DOMAIN pending' => coord \in DOMAIN pending
       /\ \A coord \in (DOMAIN pending') \ (DOMAIN pending) :
            coord \notin DOMAIN loaded]_vars

\* C37 witness: a tick has ended after a bump; a desired tile is still loaded
\* with the mesh and the cache entry of the older version and is neither
\* queued nor pending, next to a tile of the current version.
C37_Witness ==
    /\ ran = {}
    /\ ticks > 0
    /\ \E coord \in LoadedStale :
        /\ loaded[coord].mesh_handle = cache[coord].mesh_handle
        /\ coord \notin Range(tiles_to_load)
        /\ coord \notin DOMAIN pending
    /\ \E coord \in DOMAIN loaded : CacheFresh(cache[coord], cache_version)

====
